---- MODULE Spec2Model ----
(***************************************************************************)
(* State-machine model of facebook::wdt::ServerSocket (ServerSocket.cpp).  *)
(*                                                                         *)
(* Two ServerSocket objects (A, B) live in one process and share the       *)
(* kernel's descriptor table and the thread's errno.  Every member         *)
(* function is one action, except acceptNextConnection, whose blocking     *)
(* wait loop is modelled iteration by iteration (call.pc records where     *)
(* the calling thread is); while a call is blocked no other member is      *)
(* invoked (the class is single-threaded).                                 *)
(*                                                                         *)
(* Kernel model: socket()/accept() return the lowest descriptor number     *)
(* that is not open (0 when the process runs with stdin closed) or -1;     *)
(* close() always releases the descriptor and may still report failure.    *)
(***************************************************************************)
EXTENDS Integers, Sequences, FiniteSets, TLC

\* ---------------------------------------------------------------- bounds
MaxFd == 2            \* descriptor numbers are 0..MaxFd
MaxCand == 2          \* getaddrinfo returns 1..MaxCand candidates
MaxTimeout == 2       \* acceptNextConnection(timeoutMillis), -1..MaxTimeout
MaxFaults == 2        \* failures the environment injects into syscalls in one run
MaxMoveFaults == 0    \* the same, in the runs with two objects

Inst == {"A", "B"}
Fds == 0..MaxFd
EphemeralPort == 7                  \* port the kernel assigns for port 0
\* Constructor arguments and the family option in force at construction
ArgsOf(i) ==
  IF i = "A"
    THEN [port |-> 0, backlog |-> 1, abortChecker |-> "nullptr", ipv4 |-> FALSE, ipv6 |-> TRUE]
    ELSE [port |-> 5, backlog |-> 2, abortChecker |-> "chk", ipv4 |-> TRUE, ipv6 |-> TRUE]
Args == {ArgsOf(i) : i \in Inst}
Errnos == {"EINTR", "EOTHER"}
Timeouts == (-1)..MaxTimeout
MaxElapsed == MaxTimeout + 1        \* the clock saturates past every timeout

\* ---------------------------------------------------------------- state
VARIABLES
  sock,        \* [Inst -> object]: port_, backlog_, listeningFd_, fd_, sa_, abortChecker_
  alive,       \* objects constructed and not yet destroyed
  gone,        \* objects already destroyed (an object lives once)
  kOpen,       \* kernel: descriptors currently open
  kListening,  \* kernel: open descriptors on which ::listen succeeded
  errno,       \* thread's errno
  kFaults,     \* failures the environment may still inject
  call,        \* the acceptNextConnection call in progress (or idle)
  last,        \* the last member call: its result, log line and syscalls
  movedFrom,   \* [Inst -> "no" | "ctor" | "assign"]: the object was the source of a move
               \* (by which operation) and has not been the target of one since
  listened     \* objects on which listen() returned OK since construction/closeAll/move

vars == <<sock, alive, gone, kOpen, kListening, errno, kFaults, call, last, movedFrom, listened>>

\* ServerSocket.cpp:23-40: sa_ is zeroed, then the family preference is set
Hints(ipv4, ipv6) ==
  [ai_family |-> IF ipv4 THEN "AF_INET" ELSE IF ipv6 THEN "AF_INET6" ELSE "AF_UNSPEC",
   node |-> 0]

\* An addrinfo entry of the resolver's list: k-th node, family as requested
Info(hints, k) ==
  [ai_family |-> IF hints.ai_family = "AF_UNSPEC" THEN "AF_INET6" ELSE hints.ai_family,
   node |-> k]

NoObject ==
  [port_ |-> -1, backlog_ |-> 0, listeningFd_ |-> -1, fd_ |-> -1,
   sa_ |-> Hints(FALSE, FALSE), abortChecker_ |-> "nullptr"]

IdleCall ==
  [pc |-> "idle", inst |-> "A", timeoutMillis |-> 0, elapsed |-> 0,
   timeElapsed |-> 0, pollTimeout |-> 0, pollRet |-> 0, polled |-> FALSE,
   retried |-> FALSE]

Ret(op, i, ret, log, sys) ==
  [op |-> op, inst |-> i, ret |-> ret, log |-> log, sys |-> sys,
   timeoutMillis |-> 0, elapsed |-> 0, retried |-> FALSE]

Init ==
  /\ sock = [i \in Inst |-> NoObject]
  /\ alive = {}
  /\ gone = {}
  /\ kOpen \in {{}, {0}}
  /\ kListening = {}
  /\ errno \in Errnos
  /\ kFaults = MaxFaults
  /\ call = IdleCall
  /\ last = Ret("none", "A", "void", <<>>, <<>>)
  /\ movedFrom = [i \in Inst |-> "no"]
  /\ listened = {}

\* ---------------------------------------------------------------- constructor
\* ServerSocket::ServerSocket(int32_t port, int backlog, abortChecker)
ServerSocket(port, backlog, abortChecker, ipv4, ipv6) ==
  [port_ |-> port, backlog_ |-> backlog, listeningFd_ |-> -1, fd_ |-> -1,
   sa_ |-> Hints(ipv4, ipv6), abortChecker_ |-> abortChecker]

Construct(i, a) ==
  /\ call.pc = "idle"
  /\ i \notin alive \cup gone
  /\ sock' = [sock EXCEPT ![i] =
                ServerSocket(a.port, a.backlog, a.abortChecker, a.ipv4, a.ipv6)]
  /\ alive' = alive \cup {i}
  /\ last' = Ret("ServerSocket", i, "void", <<>>, <<>>)
  /\ movedFrom' = [movedFrom EXCEPT ![i] = "no"]
  /\ listened' = listened \ {i}
  /\ UNCHANGED <<gone, kOpen, kListening, errno, kFaults, call>>

\* ---------------------------------------------------------------- kernel
Kernel == [open |-> kOpen, listening |-> kListening, errno |-> errno, faults |-> kFaults]

\* A syscall fails because the environment makes it fail: errno is set
Fail(k, e) == [k EXCEPT !.errno = e, !.faults = @ - 1]

\* ::close(fd): the descriptor is released; the call reports failure when the
\* environment says so (ok = FALSE) or when fd is not an open descriptor (EBADF)
Close(k, fd, ok) ==
  LET k1 == [k EXCEPT !.open = @ \ {fd}, !.listening = @ \ {fd}] IN
  IF fd \notin k.open THEN [k |-> [k1 EXCEPT !.errno = "EOTHER"], ret |-> -1]
  ELSE IF ~ok THEN [k |-> Fail(k1, "EOTHER"), ret |-> -1]
  ELSE [k |-> k1, ret |-> 0]

\* socket()/accept(): the lowest descriptor not open, -1 when the call fails
\* (ok = FALSE) or the table is full
NewFd(open, ok) ==
  IF ok /\ Fds \ open # {}
    THEN CHOOSE fd \in Fds \ open : \A g \in Fds \ open : fd <= g
    ELSE -1

\* ---------------------------------------------------------------- closeAll
\* closeAll() that keeps fd_ when ::close reports an error
CloseFd_keepOnError(st, ok) ==
  IF st.o.fd_ >= 0
    THEN LET c == Close(st.k, st.o.fd_, ok) IN
         [o |-> IF c.ret # 0 THEN st.o ELSE [st.o EXCEPT !.fd_ = -1],
          k |-> c.k,
          sys |-> Append(st.sys, <<"close", st.o.fd_>>),
          log |-> IF c.ret # 0 THEN Append(st.log, "Error closing fd for server socket")
                               ELSE st.log]
    ELSE st

\* ServerSocket.cpp:71-78
CloseFd(st, ok) ==
  IF st.o.fd_ >= 0
    THEN LET c == Close(st.k, st.o.fd_, ok) IN
         [o |-> [st.o EXCEPT !.fd_ = -1],
          k |-> c.k,
          sys |-> Append(st.sys, <<"close", st.o.fd_>>),
          log |-> IF c.ret # 0 THEN Append(st.log, "Error closing fd for server socket")
                               ELSE st.log]
    ELSE st

\* closeAll() that closes the listening descriptor and keeps it in listeningFd_
CloseListeningFd_keep(st, ok) ==
  IF st.o.listeningFd_ >= 0
    THEN [st EXCEPT !.k = Close(st.k, st.o.listeningFd_, ok).k,
                    !.sys = Append(@, <<"close", st.o.listeningFd_>>)]
    ELSE st

\* ServerSocket.cpp:79-87
CloseListeningFd(st, ok) ==
  IF st.o.listeningFd_ >= 0
    THEN LET c == Close(st.k, st.o.listeningFd_, ok) IN
         [o |-> [st.o EXCEPT !.listeningFd_ = -1],
          k |-> c.k,
          sys |-> Append(st.sys, <<"close", st.o.listeningFd_>>),
          log |-> IF c.ret # 0
                    THEN Append(st.log, "Error closing listening fd for server socket")
                    ELSE st.log]
    ELSE st

\* ServerSocket::closeAll(), ServerSocket.cpp:68-88
closeAll(o, k, ok1, ok2) ==
  CloseListeningFd(CloseFd([o |-> o, k |-> k, sys |-> <<>>, log |-> <<>>], ok1), ok2)

CloseAll(i) ==
  /\ call.pc = "idle"
  /\ i \in alive
  /\ \E ok1 \in BOOLEAN, ok2 \in BOOLEAN :
       LET r == closeAll(sock[i], Kernel, ok1, ok2) IN
         /\ sock' = [sock EXCEPT ![i] = r.o]
         /\ kOpen' = r.k.open
         /\ kListening' = r.k.listening
         /\ errno' = r.k.errno
         /\ kFaults' = r.k.faults
         /\ r.k.faults >= 0
         /\ last' = Ret("closeAll", i, "void", r.log, r.sys)
  /\ movedFrom' = movedFrom
  /\ listened' = listened \ {i}
  /\ UNCHANGED <<alive, gone, call>>

\* ServerSocket::~ServerSocket(), ServerSocket.cpp:90-92
Destroy(i) ==
  /\ call.pc = "idle"
  /\ i \in alive
  /\ \E ok1 \in BOOLEAN, ok2 \in BOOLEAN :
       LET r == closeAll(sock[i], Kernel, ok1, ok2) IN
         /\ sock' = [sock EXCEPT ![i] = NoObject]
         /\ kOpen' = r.k.open
         /\ kListening' = r.k.listening
         /\ errno' = r.k.errno
         /\ kFaults' = r.k.faults
         /\ r.k.faults >= 0
         /\ last' = Ret("~ServerSocket", i, "void", r.log, r.sys)
  /\ alive' = alive \ {i}
  /\ gone' = gone \cup {i}
  /\ movedFrom' = movedFrom
  /\ listened' = listened \ {i}
  /\ UNCHANGED call

\* ---------------------------------------------------------------- closeCurrentConnection
\* closeCurrentConnection() that also resets port_ to the constructor's
\* request for an ephemeral port
closeCurrentConnection_resetPort(o, k, ok) ==
  IF o.fd_ >= 0
    THEN LET c == Close(k, o.fd_, ok) IN
         [o |-> [o EXCEPT !.fd_ = -1, !.port_ = 0],
          k |-> c.k,
          sys |-> <<<<"close", o.fd_>>>>,
          ret |-> c.ret]
    ELSE [o |-> o, k |-> k, sys |-> <<>>, ret |-> 0]

\* closeCurrentConnection() that tears the listening socket down as well
closeCurrentConnection_all(o, k, ok) ==
  LET r == closeAll(o, k, ok, TRUE) IN
  [o |-> r.o, k |-> r.k, sys |-> r.sys, ret |-> 0]

\* ServerSocket::closeCurrentConnection(), ServerSocket.cpp:217-224
closeCurrentConnection(o, k, ok) ==
  IF o.fd_ >= 0
    THEN LET c == Close(k, o.fd_, ok) IN
         [o |-> [o EXCEPT !.fd_ = -1],
          k |-> c.k,
          sys |-> <<<<"close", o.fd_>>>>,
          ret |-> c.ret]
    ELSE [o |-> o, k |-> k, sys |-> <<>>, ret |-> 0]

CloseCurrentConnection(i) ==
  /\ call.pc = "idle"
  /\ i \in alive
  /\ \E ok \in BOOLEAN :
       LET r == closeCurrentConnection(sock[i], Kernel, ok) IN
         /\ sock' = [sock EXCEPT ![i] = r.o]
         /\ kOpen' = r.k.open
         /\ kListening' = r.k.listening
         /\ errno' = r.k.errno
         /\ kFaults' = r.k.faults
         /\ r.k.faults >= 0
         /\ last' = Ret("closeCurrentConnection", i, r.ret, <<>>, r.sys)
  /\ UNCHANGED <<alive, gone, call, movedFrom, listened>>

\* ---------------------------------------------------------------- listen
\* Outcomes the environment chooses for one resolver candidate: whether
\* socket(), bind() and getsockname() succeed (a call is made only when the
\* ones before it succeeded)
Cands ==
  {[sock |-> FALSE, bind |-> FALSE, gsn |-> FALSE],
   [sock |-> TRUE, bind |-> FALSE, gsn |-> FALSE],
   [sock |-> TRUE, bind |-> TRUE, gsn |-> FALSE],
   [sock |-> TRUE, bind |-> TRUE, gsn |-> TRUE]}

\* listen() without its early return
AlreadyListening_never(o) == FALSE

\* ServerSocket.cpp:95: the early return of listen()
AlreadyListening(o) == o.listeningFd_ > 0

\* ServerSocket.cpp:141: the test after the candidate loop
BindFailed(o) == o.listeningFd_ <= 0

\* ServerSocket.cpp:100-102: getaddrinfo(nullptr, to<string>(port_), &sa_, ..);
\* the service string "-1" of a moved-from object names no service
Resolves(o, res) == res /\ o.port_ >= 0

\* ServerSocket.cpp:125-135: after a successful bind with port_ == 0
QueryPort(st, c) ==
  IF st.o.port_ = 0
    THEN IF ~c.gsn
           THEN [st EXCEPT !.k = Fail(@, "EOTHER"),
                           !.sys = Append(@, <<"getsockname", st.o.listeningFd_>>),
                           !.log = Append(@, "getsockname")]
           ELSE [st EXCEPT !.o.port_ = EphemeralPort,
                           !.sys = Append(@, <<"getsockname", st.o.listeningFd_>>),
                           !.bound = TRUE]
    ELSE [st EXCEPT !.bound = TRUE]

\* ServerSocket.cpp:136-138: record the winning address and break
Winner(st, hints, n) ==
  IF st.bound THEN [st EXCEPT !.o.sa_ = Info(hints, n), !.brk = TRUE] ELSE st

\* ServerSocket.cpp:113-138: the body of the candidate loop for the n-th entry
TryCandidate(st, hints, c, n) ==
  LET fd == NewFd(st.k.open, c.sock)
      s1 == [st EXCEPT !.o.listeningFd_ = fd,
                       !.sys = Append(@, <<"socket", n>>),
                       !.bound = FALSE]
  IN IF fd = -1
       THEN [s1 EXCEPT !.k = IF c.sock THEN [@ EXCEPT !.errno = "EOTHER"]
                                       ELSE Fail(@, "EOTHER"),
                       !.log = Append(@, "Error making server socket")]
     ELSE LET s2 == [s1 EXCEPT !.k.open = @ \cup {fd},
                               !.made = @ \cup {fd},
                               !.sys = Append(@, <<"bind", fd>>)]
          IN IF ~c.bind
               THEN [s2 EXCEPT !.k = Close(Fail(@, "EOTHER"), fd, TRUE).k,
                               !.o.listeningFd_ = -1,
                               !.sys = Append(@, <<"close", fd>>),
                               !.log = Append(@, "Error binding")]
               ELSE Winner(QueryPort(s2, c), hints, n)

\* ServerSocket.cpp:108-139: for (info = infoList; info != nullptr; info = info->ai_next)
\* over a list of len entries, for every outcome of the calls made on each entry
RECURSIVE CandidateLoop(_, _, _, _)
CandidateLoop(st, hints, len, n) ==
  IF n > len \/ st.brk \/ st.k.faults < 0
    THEN {st}
    ELSE UNION {CandidateLoop(TryCandidate(st, hints, c, n), hints, len, n + 1) :
                  c \in Cands}

\* A ::listen failure path that closes the socket and keeps it in listeningFd_
KernelListen_keepFd(st, lok) ==
  LET fd == st.o.listeningFd_ IN
  IF lok
    THEN [st EXCEPT !.k.listening = @ \cup {fd},
                    !.sys = Append(@, <<"listen", fd>>),
                    !.ret = "OK"]
    ELSE [st EXCEPT !.k = Close(Fail(@, "EOTHER"), fd, TRUE).k,
                    !.sys = Append(Append(@, <<"listen", fd>>), <<"close", fd>>),
                    !.log = Append(@, "listen error for port"),
                    !.ret = "CONN_ERROR_RETRYABLE"]

\* ServerSocket.cpp:145-151: ::listen(listeningFd_, backlog_)
KernelListen(st, lok) ==
  LET fd == st.o.listeningFd_ IN
  IF lok
    THEN [st EXCEPT !.k.listening = @ \cup {fd},
                    !.sys = Append(@, <<"listen", fd>>),
                    !.ret = "OK"]
    ELSE [st EXCEPT !.k = Close(Fail(@, "EOTHER"), fd, TRUE).k,
                    !.o.listeningFd_ = -1,
                    !.sys = Append(Append(@, <<"listen", fd>>), <<"close", fd>>),
                    !.log = Append(@, "listen error for port"),
                    !.ret = "CONN_ERROR_RETRYABLE"]

\* ServerSocket.cpp:140-151: after the loop
AfterLoop(st, lok) ==
  IF BindFailed(st.o)
    THEN [st EXCEPT !.ret = "CONN_ERROR_RETRYABLE",
                    !.log = Append(@, "Unable to bind port")]
    ELSE KernelListen(st, lok)

\* ServerSocket::listen(), ServerSocket.cpp:94-152: the results the call can
\* have from object o and kernel state k, over every outcome of getaddrinfo
\* (failure, or a list of 1..MaxCand entries) and of the calls made after it
listen(o, k) ==
  LET st0 == [o |-> o, k |-> k, sys |-> <<>>, log |-> <<>>, ret |-> "OK",
              made |-> {}, brk |-> FALSE, bound |-> FALSE]
      st1 == [st0 EXCEPT !.sys = <<<<"getaddrinfo", o.port_>>>>]
  IN IF AlreadyListening(o) THEN {st0}
     ELSE UNION {
            IF ~Resolves(o, res)
              THEN {[st1 EXCEPT !.ret = "CONN_ERROR",
                                !.k.faults = IF res THEN @ ELSE @ - 1,
                                !.log = <<"Failed getaddrinfo ai_passive">>]}
              ELSE {AfterLoop(st2, lok) :
                      st2 \in CandidateLoop(st1, o.sa_, len, 1), lok \in BOOLEAN}
            : res \in BOOLEAN, len \in 1..MaxCand}

Listen(i) ==
  /\ call.pc = "idle"
  /\ i \in alive
  /\ \E r \in listen(sock[i], Kernel) :
         /\ sock' = [sock EXCEPT ![i] = r.o]
         /\ kOpen' = r.k.open
         /\ kListening' = r.k.listening
         /\ errno' = r.k.errno
         /\ kFaults' = r.k.faults
         /\ r.k.faults >= 0
         /\ last' = Ret("listen", i, r.ret, r.log, r.sys)
         /\ listened' = IF r.ret = "OK" THEN listened \cup {i} ELSE listened
  /\ UNCHANGED <<alive, gone, call, movedFrom>>

\* ---------------------------------------------------------------- acceptNextConnection
Min(a, b) == IF a < b THEN a ELSE b

\* A test that takes the timeout 0 for a budget of zero milliseconds
WaitEnabled_zero(timeoutMillis) == timeoutMillis >= 0

\* ServerSocket.cpp:160: zero (or a negative value) disables the timeout
WaitEnabled(timeoutMillis) == timeoutMillis > 0

\* A wait loop without its budget check
TimedOut_never(timeElapsed, timeoutMillis) == FALSE

\* A budget check that gives up one millisecond early
TimedOut_early(timeElapsed, timeoutMillis) == timeElapsed + 1 >= timeoutMillis

\* ServerSocket.cpp:169: the budget check at the top of the loop
TimedOut(timeElapsed, timeoutMillis) == timeElapsed >= timeoutMillis

\* ServerSocket.cpp:173: the timeout handed to poll()
PollTimeout(timeElapsed, timeoutMillis) == timeoutMillis - timeElapsed

\* ServerSocket.cpp:177-189: what the loop does with poll()'s result and errno
AfterPoll(retValue, err) ==
  IF retValue <= 0
    THEN IF err = "EINTR" THEN "continue"
         ELSE IF retValue = 0 THEN "poll() timed out"
         ELSE "poll() failed"
    ELSE "break"

\* poll(pollFds, 1, pollTimeout): the results the kernel can give, with the
\* time d the call took: 1 (readable) or -1 (signal, error) after at most
\* pollTimeout, 0 only once pollTimeout has passed; errno is set on -1 only
PollResults(k, pollTimeout) ==
  {[retValue |-> 1, k |-> k, d |-> d] : d \in 0..pollTimeout}
    \cup {[retValue |-> 0, k |-> k, d |-> d] : d \in pollTimeout..(pollTimeout + 1)}
    \cup {[retValue |-> -1, k |-> [k EXCEPT !.errno = "EINTR"], d |-> d] :
            d \in 0..pollTimeout}
    \cup {[retValue |-> -1, k |-> Fail(k, "EOTHER"), d |-> d] : d \in 0..pollTimeout}

AcceptReturn(i, code, log, sys, timeoutMillis, elapsed) ==
  [op |-> "acceptNextConnection", inst |-> i, ret |-> code, log |-> log, sys |-> sys,
   timeoutMillis |-> timeoutMillis, elapsed |-> elapsed, retried |-> FALSE]

\* ServerSocket.cpp:154-162: the call to listen(), then either return its
\* error, enter the wait loop (startTime = now) or go straight to accept()
AcceptBegin(i, timeoutMillis) ==
  /\ call.pc = "idle"
  /\ i \in alive
  /\ \E r \in listen(sock[i], Kernel) :
         /\ r.k.faults >= 0
         /\ sock' = [sock EXCEPT ![i] = r.o]
         /\ kOpen' = r.k.open
         /\ kListening' = r.k.listening
         /\ errno' = r.k.errno
         /\ kFaults' = r.k.faults
         /\ listened' = IF r.ret = "OK" THEN listened \cup {i} ELSE listened
         /\ IF r.ret # "OK"
              THEN /\ call' = IdleCall
                   /\ last' = AcceptReturn(i, r.ret, r.log, r.sys, timeoutMillis, 0)
              ELSE /\ call' = [IdleCall EXCEPT
                                 !.pc = IF WaitEnabled(timeoutMillis) THEN "wait" ELSE "accept",
                                 !.inst = i, !.timeoutMillis = timeoutMillis]
                   /\ last' = AcceptReturn(i, "pending", r.log, r.sys, timeoutMillis, 0)
  /\ UNCHANGED <<alive, gone, movedFrom>>

\* The clock advances while the caller is inside the wait loop
Tick ==
  /\ call.pc = "wait"
  /\ call.elapsed < MaxElapsed
  /\ call' = [call EXCEPT !.elapsed = @ + 1]
  /\ UNCHANGED <<sock, alive, gone, kOpen, kListening, errno, kFaults, last, movedFrom, listened>>

\* ServerSocket.cpp:163-190: one iteration of while (true)
WaitIteration ==
  /\ call.pc = "wait"
  /\ LET T == call.timeoutMillis
         timeElapsed == call.elapsed
     IN IF TimedOut(timeElapsed, T)
          THEN /\ call' = IdleCall
               /\ last' = [last EXCEPT !.ret = "CONN_ERROR",
                                       !.log = Append(@, "accept() timed out"),
                                       !.elapsed = call.elapsed,
                                       !.retried = call.retried]
               /\ UNCHANGED <<errno, kFaults>>
          ELSE \E p \in PollResults(Kernel, PollTimeout(timeElapsed, T)) :
                 LET next == AfterPoll(p.retValue, p.k.errno)
                     now == Min(call.elapsed + p.d, MaxElapsed)
                 IN /\ p.k.faults >= 0
                    /\ errno' = p.k.errno
                    /\ kFaults' = p.k.faults
                    /\ IF next \in {"continue", "break"}
                         THEN /\ call' = [call EXCEPT
                                            !.pc = IF next = "break" THEN "accept" ELSE "wait",
                                            !.elapsed = now,
                                            !.timeElapsed = timeElapsed,
                                            !.pollTimeout = PollTimeout(timeElapsed, T),
                                            !.pollRet = p.retValue,
                                            !.polled = TRUE,
                                            !.retried = @ \/ next = "continue"]
                              /\ last' = last
                         ELSE /\ call' = IdleCall
                              /\ last' = [last EXCEPT !.ret = "CONN_ERROR",
                                                      !.log = Append(@, next),
                                                      !.elapsed = now,
                                                      !.retried = call.retried]
  /\ UNCHANGED <<sock, alive, gone, kOpen, kListening, movedFrom, listened>>

\* accept(listeningFd_, ..): a new descriptor, or -1 when the environment makes
\* the call fail, the table is full or the descriptor is not a listening socket
Accept(k, lfd, ok, e) ==
  LET fd == IF lfd \in k.listening THEN NewFd(k.open, ok) ELSE -1 IN
  IF fd >= 0 THEN [fd |-> fd, k |-> [k EXCEPT !.open = @ \cup {fd}]]
  ELSE IF ok THEN [fd |-> -1, k |-> [k EXCEPT !.errno = e]]
  ELSE [fd |-> -1, k |-> Fail(k, e)]

\* An accept step that drops the listening socket when accept() fails
AcceptConnection_dropListener(o, k, ok, e) ==
  LET a == Accept(k, o.listeningFd_, ok, e) IN
  IF a.fd < 0
    THEN [o |-> [o EXCEPT !.fd_ = -1, !.listeningFd_ = -1],
          k |-> Close(a.k, o.listeningFd_, TRUE).k,
          ret |-> "CONN_ERROR",
          log |-> <<"accept error">>,
          sys |-> <<<<"accept", o.listeningFd_>>, <<"close", o.listeningFd_>>>>]
    ELSE [o |-> [o EXCEPT !.fd_ = a.fd], k |-> a.k, ret |-> "OK", log |-> <<>>,
          sys |-> <<<<"accept", o.listeningFd_>>>>]

\* ServerSocket.cpp:193-205: fd_ = accept(..) and the result of the call
AcceptConnection(o, k, ok, e) ==
  LET a == Accept(k, o.listeningFd_, ok, e) IN
  [o |-> [o EXCEPT !.fd_ = a.fd],
   k |-> a.k,
   ret |-> IF a.fd < 0 THEN "CONN_ERROR" ELSE "OK",
   log |-> IF a.fd < 0 THEN <<"accept error">> ELSE <<>>,
   sys |-> <<<<"accept", o.listeningFd_>>>>]

AcceptSyscall(e) ==
  /\ call.pc = "accept"
  /\ \E ok \in BOOLEAN :
       LET r == AcceptConnection(sock[call.inst], Kernel, ok, e) IN
         /\ r.k.faults >= 0
         /\ sock' = [sock EXCEPT ![call.inst] = r.o]
         /\ kOpen' = r.k.open
         /\ kListening' = r.k.listening
         /\ errno' = r.k.errno
         /\ kFaults' = r.k.faults
         /\ last' = [last EXCEPT !.ret = r.ret, !.log = @ \o r.log, !.sys = @ \o r.sys,
                                 !.elapsed = call.elapsed, !.retried = call.retried]
  /\ call' = IdleCall
  /\ UNCHANGED <<alive, gone, movedFrom, listened>>

\* ---------------------------------------------------------------- read / write
\* ServerSocket::read / ServerSocket::write, ServerSocket.cpp:207-215: the call
\* is handed to SocketUtils with fd_ and abortChecker_; no member changes
Transfer(i, op) ==
  /\ call.pc = "idle"
  /\ i \in alive
  /\ \E n \in {-1, 1} :
       last' = Ret(op, i, n, <<>>, <<<<op, sock[i].fd_, sock[i].abortChecker_>>>>)
  /\ UNCHANGED <<sock, alive, gone, kOpen, kListening, errno, kFaults, call, movedFrom, listened>>

Read(i) == Transfer(i, "read")
Write(i) == Transfer(i, "write")

\* ---------------------------------------------------------------- moves
\* ServerSocket::ServerSocket(ServerSocket &&that), ServerSocket.cpp:42-48:
\* the new object
MoveCtorThis(that) ==
  [port_ |-> that.port_, backlog_ |-> that.backlog_,
   listeningFd_ |-> that.listeningFd_, fd_ |-> that.fd_,
   sa_ |-> that.sa_, abortChecker_ |-> that.abortChecker_]

\* A move constructor that leaves the descriptors in `that`
MoveCtorThat_keepFds(that) == [that EXCEPT !.port_ = -1]

\* ServerSocket.cpp:52-56: what the constructor leaves in `that`
MoveCtorThat(that) ==
  [that EXCEPT !.listeningFd_ = -1, !.fd_ = -1, !.port_ = -1]

MoveConstruct(to, from) ==
  /\ call.pc = "idle"
  /\ to \notin alive \cup gone
  /\ from \in alive
  /\ sock' = [sock EXCEPT ![to] = MoveCtorThis(sock[from]),
                          ![from] = MoveCtorThat(sock[from])]
  /\ alive' = alive \cup {to}
  /\ last' = Ret("ServerSocket(&&)", to, "void", <<>>, <<>>)
  /\ movedFrom' = [movedFrom EXCEPT ![to] = "no", ![from] = "ctor"]
  /\ listened' = listened \ {to, from}
  /\ UNCHANGED <<gone, kOpen, kListening, errno, kFaults, call>>

\* ServerSocket::operator=(ServerSocket &&that), ServerSocket.cpp:59-66:
\* the target after the five swaps (backlog_ is not among them)
MoveAssignThis(this, that) ==
  [this EXCEPT !.port_ = that.port_, !.sa_ = that.sa_,
               !.listeningFd_ = that.listeningFd_, !.fd_ = that.fd_,
               !.abortChecker_ = that.abortChecker_]

\* A move assignment that exchanges everything but fd_
MoveAssignThat_keepFd(this, that) ==
  [that EXCEPT !.port_ = this.port_, !.sa_ = this.sa_,
               !.listeningFd_ = this.listeningFd_,
               !.abortChecker_ = this.abortChecker_]

\* ServerSocket.cpp:59-66: the source after the five swaps
MoveAssignThat(this, that) ==
  [that EXCEPT !.port_ = this.port_, !.sa_ = this.sa_,
               !.listeningFd_ = this.listeningFd_, !.fd_ = this.fd_,
               !.abortChecker_ = this.abortChecker_]

MoveAssign(to, from) ==
  /\ call.pc = "idle"
  /\ to \in alive
  /\ from \in alive
  /\ to # from
  /\ sock' = [sock EXCEPT ![to] = MoveAssignThis(sock[to], sock[from]),
                          ![from] = MoveAssignThat(sock[to], sock[from])]
  /\ last' = Ret("operator=(&&)", to, "void", <<>>, <<>>)
  /\ movedFrom' = [movedFrom EXCEPT ![to] = "no", ![from] = "assign"]
  /\ listened' = listened \ {to, from}
  /\ UNCHANGED <<alive, gone, kOpen, kListening, errno, kFaults, call>>

\* One ServerSocket object and everything a caller can do with it
Next ==
  \/ \E a \in Args : Construct("A", a)
  \/ Listen("A")
  \/ \E t \in Timeouts : AcceptBegin("A", t)
  \/ Tick
  \/ WaitIteration
  \/ \E e \in Errnos : AcceptSyscall(e)
  \/ Read("A")
  \/ Write("A")
  \/ CloseCurrentConnection("A")
  \/ CloseAll("A")
  \/ Destroy("A")

Spec == Init /\ [][Next]_vars

\* Two objects, moved into each other; the process has stdin open,
\* acceptNextConnection is called without a timeout and a failing accept()
\* is not an interrupted one
InitMove ==
  /\ sock = [i \in Inst |-> NoObject]
  /\ alive = {}
  /\ gone = {}
  /\ kOpen = {0}
  /\ kListening = {}
  /\ errno = "EOTHER"
  /\ kFaults = MaxMoveFaults
  /\ call = IdleCall
  /\ last = Ret("none", "A", "void", <<>>, <<>>)
  /\ movedFrom = [i \in Inst |-> "no"]
  /\ listened = {}

NextMove ==
  \/ \E i \in Inst : Construct(i, ArgsOf(i))
  \/ \E i \in Inst : Listen(i)
  \/ \E i \in Inst : AcceptBegin(i, 0)
  \/ AcceptSyscall("EOTHER")
  \/ \E i \in Inst : CloseCurrentConnection(i)
  \/ \E i \in Inst : CloseAll(i)
  \/ \E i \in Inst : Destroy(i)
  \/ \E to \in Inst, from \in Inst : MoveConstruct(to, from)
  \/ \E to \in Inst, from \in Inst : MoveAssign(to, from)

SpecMove == InitMove /\ [][NextMove]_vars

\* One object, under the assumptions that the calling thread keeps running
\* (an iteration of the wait loop that can be taken is taken) and that the
\* clock advances while the caller is in the loop
SpecLive == Init /\ [][Next]_vars /\ WF_vars(WaitIteration) /\ WF_vars(Tick)
\* ======================================================================
\* Properties
\* ======================================================================
\* A step that is a call of member `op` (every call writes `last`)
Called(op) == last'.op = op /\ call.pc = "idle" /\ vars' # vars

\* ServerSocket::getPort(), ServerSocket.cpp:233-235
getPort(i) == sock[i].port_

\* ----------------------------------------------------------------------
\* C1: once listen() has returned OK on an object, every further listen()
\* on it (no closeAll or move in between) returns OK without any syscall
\* (no getaddrinfo, socket, bind or ::listen) and leaves listeningFd_, fd_
\* and port_ unchanged.
C1_ListenIdempotent ==
  [][\A i \in Inst :
       (Called("listen") /\ last'.inst = i /\ i \in listened)
         => /\ last'.ret = "OK"
            /\ last'.sys = <<>>
            /\ sock'[i].listeningFd_ = sock[i].listeningFd_
            /\ sock'[i].fd_ = sock[i].fd_
            /\ sock'[i].port_ = sock[i].port_
            /\ kOpen' = kOpen]_vars

\* a repeated listen() has returned on a listening object
C1_Witness ==
  /\ last.op = "listen" /\ last.ret = "OK" /\ last.sys = <<>>
  /\ last.inst \in listened
  /\ sock[last.inst].listeningFd_ \in kListening

\* ----------------------------------------------------------------------
\* C2: for an object constructed with port 0, in every state after a
\* successful listen() the recorded port is a concrete one: getPort() > 0.
C2_EphemeralPortRecorded ==
  \A i \in alive : i \in listened => getPort(i) > 0

\* ----------------------------------------------------------------------
\* C3: closeCurrentConnection() closes only the active connection
\* descriptor and resets fd_ to -1; listeningFd_ and port_ are unchanged
\* and the listening descriptor stays open and listening, so that the next
\* acceptNextConnection() goes on to wait/accept on the same listening
\* descriptor without resolving or binding again.
C3_CloseCurrentKeepsListener ==
  [][\A i \in Inst :
       /\ (Called("closeCurrentConnection") /\ last'.inst = i)
            => /\ sock'[i].fd_ = -1
               /\ sock'[i].listeningFd_ = sock[i].listeningFd_
               /\ sock'[i].port_ = sock[i].port_
               /\ kOpen' = kOpen \ {sock[i].fd_}
               /\ kListening' = kListening
               /\ \A n \in 1..Len(last'.sys) : last'.sys[n] = <<"close", sock[i].fd_>>
       /\ (/\ last.op = "closeCurrentConnection" /\ last.inst = i /\ i \in listened
           /\ Called("acceptNextConnection") /\ last'.inst = i)
            => /\ last'.ret = "pending"
               /\ last'.sys = <<>>
               /\ call'.pc \in {"wait", "accept"}
               /\ sock'[i].listeningFd_ = sock[i].listeningFd_
               /\ sock'[i].listeningFd_ \in kListening']_vars

\* a connection was closed on an object that is still listening
C3_Witness ==
  /\ last.op = "closeCurrentConnection"
  /\ Len(last.sys) = 1
  /\ sock[last.inst].fd_ = -1
  /\ sock[last.inst].listeningFd_ \in kListening

\* ----------------------------------------------------------------------
\* C4: closeAll() always completes and is idempotent: after it both
\* listeningFd_ and fd_ are -1 even when a ::close fails, and a second
\* closeAll() issues no ::close and changes nothing.
C4_CloseAllIdempotent ==
  [][\A i \in Inst :
       (Called("closeAll") /\ last'.inst = i)
         => /\ sock'[i].listeningFd_ = -1
            /\ sock'[i].fd_ = -1
            /\ (last.op = "closeAll" /\ last.inst = i)
                 => /\ last'.sys = <<>>
                    /\ UNCHANGED <<sock, kOpen, kListening>>]_vars

\* closeAll() has run on a connected object and both ::close calls failed
C4_Witness ==
  /\ last.op = "closeAll"
  /\ Len(last.sys) = 2 /\ Len(last.log) = 2
  /\ sock[last.inst].listeningFd_ = -1
  /\ sock[last.inst].fd_ = -1

\* ----------------------------------------------------------------------
\* C5: move-constructing B from A gives B exactly A's port, backlog,
\* address hint, listening descriptor, connection descriptor and abort
\* checker and leaves A with listeningFd_ = -1, fd_ = -1, port_ = -1;
\* destroying A afterwards closes no descriptor, so the descriptors B holds
\* stay open.
C5_MoveConstruct ==
  [][\A to \in Inst : \A from \in Inst \ {to} :
       /\ (Called("ServerSocket(&&)") /\ last'.inst = to)
            => /\ sock'[to] = sock[from]
               /\ sock'[from].listeningFd_ = -1
               /\ sock'[from].fd_ = -1
               /\ sock'[from].port_ = -1
               /\ UNCHANGED <<kOpen, kListening>>
       /\ (Called("~ServerSocket") /\ last'.inst = from /\ movedFrom[from] = "ctor")
            => /\ last'.sys = <<>>
               /\ UNCHANGED <<kOpen, kListening>>
               /\ sock'[to] = sock[to]]_vars

\* a connected object was move-constructed from A, A was destroyed, and the
\* new object's descriptors are still open
C5_Witness ==
  \E to \in alive, from \in gone :
    /\ last.op = "~ServerSocket" /\ last.inst = from
    /\ movedFrom[from] = "ctor"
    /\ sock[to].listeningFd_ \in kListening
    /\ sock[to].fd_ \in kOpen
\* ----------------------------------------------------------------------
\* C6: move assignment B = move(A) gives B all of A's descriptors and
\* scalar state, backlog included, and leaves A with both descriptors at
\* -1 and port_ at the sentinel -1, whatever A and B held before.
C6_MoveAssignTransfers ==
  [][\A to \in Inst : \A from \in Inst \ {to} :
       (Called("operator=(&&)") /\ last'.inst = to)
         => /\ sock'[to] = sock[from]
            /\ sock'[from].listeningFd_ = -1
            /\ sock'[from].fd_ = -1
            /\ sock'[from].port_ = -1]_vars

\* ----------------------------------------------------------------------
\* C7: an object that has been the source of a move (and not the target of
\* a later one) cannot bind: listen() and acceptNextConnection() on it
\* never return OK and never leave it holding a listening descriptor.
C7_MovedFromCannotBind ==
  \A i \in alive :
    (movedFrom[i] # "no" /\ last.inst = i
       /\ last.op \in {"listen", "acceptNextConnection"})
      => /\ last.ret \in {"CONN_ERROR", "CONN_ERROR_RETRYABLE"}
         /\ sock[i].listeningFd_ < 0

\* ----------------------------------------------------------------------
\* C8: acceptNextConnection(T), T > 0: the timeout error is returned only
\* when the time elapsed since the start of the call is at least T, however
\* many times the wait was interrupted; a wait interrupted by a signal
\* while elapsed < T is not reported as an error: the loop goes on, and
\* every wait is issued with the remaining time T - elapsed.
TimeoutLogs == {"accept() timed out", "poll() timed out"}

C8_TimeoutNotEarly ==
  /\ [](/\ (/\ last.op = "acceptNextConnection" /\ last.ret = "CONN_ERROR"
            /\ last.log # <<>> /\ last.log[Len(last.log)] \in TimeoutLogs)
              => last.elapsed >= last.timeoutMillis
        /\ (call.pc # "idle" /\ call.polled)
              => /\ call.timeElapsed < call.timeoutMillis
                 /\ call.pollTimeout = call.timeoutMillis - call.timeElapsed)
  /\ [][(/\ call.pc = "wait" /\ call.elapsed < call.timeoutMillis
         /\ errno' = "EINTR")
          => call'.pc # "idle"]_vars

\* the call timed out after at least one interrupted wait
C8_Witness ==
  /\ last.op = "acceptNextConnection" /\ last.ret = "CONN_ERROR"
  /\ last.log = <<"accept() timed out">>
  /\ last.retried
  /\ last.timeoutMillis = MaxTimeout
  /\ last.elapsed >= last.timeoutMillis

\* ----------------------------------------------------------------------
\* C9: listen() classifies bind-phase failures: when address resolution
\* fails it returns CONN_ERROR and has created no socket; when resolution
\* succeeds and no candidate is bound it returns CONN_ERROR_RETRYABLE; in
\* both cases the object is left with listeningFd_ = -1.
SocketCalls(sys) == {n \in 1..Len(sys) : sys[n][1] = "socket"}
\* bind() succeeded on some candidate: a bind that is not followed by the
\* close of the failure path
BoundSome(sys) ==
  \E n \in 1..Len(sys) :
    /\ sys[n][1] = "bind"
    /\ (n = Len(sys) \/ sys[n + 1] # <<"close", sys[n][2]>>)
ResolutionFailed(r) == r.log = <<"Failed getaddrinfo ai_passive">>

C9_BindFailureClasses ==
  (last.op = "listen" /\ last.sys # <<>>)
    => /\ ResolutionFailed(last)
            => /\ last.ret = "CONN_ERROR"
               /\ SocketCalls(last.sys) = {}
               /\ sock[last.inst].listeningFd_ = -1
       /\ (~ResolutionFailed(last) /\ ~BoundSome(last.sys))
            => /\ last.ret = "CONN_ERROR_RETRYABLE"
               /\ sock[last.inst].listeningFd_ = -1

\* ----------------------------------------------------------------------
\* C10: every failure of acceptNextConnection() after its listen()
\* succeeded (wait error, budget exhausted, accept() failed) returns
\* CONN_ERROR and leaves listeningFd_ unchanged, open and listening, so a
\* fresh acceptNextConnection() uses the same listening descriptor without
\* resolving or binding again.
C10_AcceptFailureKeepsListener ==
  [][\A i \in Inst :
       /\ (call.pc \in {"wait", "accept"} /\ call.inst = i)
            => /\ sock'[i].listeningFd_ = sock[i].listeningFd_
               /\ sock'[i].listeningFd_ \in kListening'
               /\ (call'.pc = "idle" /\ last'.ret # "OK") => last'.ret = "CONN_ERROR"
       /\ (/\ last.op = "acceptNextConnection" /\ last.inst = i
           /\ last.ret = "CONN_ERROR" /\ i \in listened
           /\ Called("acceptNextConnection") /\ last'.inst = i)
            => /\ last'.ret = "pending"
               /\ last'.sys = <<>>
               /\ call'.pc \in {"wait", "accept"}
               /\ sock'[i].listeningFd_ = sock[i].listeningFd_]_vars

\* accept() itself failed on a listening object, which is still listening
C10_Witness ==
  /\ last.op = "acceptNextConnection" /\ last.ret = "CONN_ERROR"
  /\ last.log = <<"accept error">>
  /\ last.inst \in listened
  /\ sock[last.inst].listeningFd_ \in kListening

\* ----------------------------------------------------------------------
\* C11: at any time an object is in exactly one of the states not-yet-bound,
\* bound-and-listening, listening-with-active-connection: a connection
\* descriptor is present (fd_ >= 0) only while a listening descriptor is
\* present (listeningFd_ >= 0, open and listening), whatever sequence of
\* listen, accept, closeCurrentConnection, closeAll and moves has run.
NotYetBound(o) == o.listeningFd_ < 0 /\ o.fd_ < 0
BoundAndListening(o) == o.listeningFd_ >= 0 /\ o.fd_ < 0
ActiveConnection(o) == o.listeningFd_ >= 0 /\ o.fd_ >= 0

C11_ConnectionOnlyWhileListening ==
  \A i \in Inst :
    /\ NotYetBound(sock[i]) \/ BoundAndListening(sock[i]) \/ ActiveConnection(sock[i])
    /\ sock[i].fd_ >= 0
         => /\ sock[i].listeningFd_ >= 0
            /\ sock[i].listeningFd_ \in kListening
            /\ sock[i].fd_ \in kOpen

\* an object holds a connection it received through a move assignment
C11_Witness ==
  /\ last.op = "operator=(&&)"
  /\ ActiveConnection(sock[last.inst])
  /\ \E j \in alive \ {last.inst} : NotYetBound(sock[j])

\* ----------------------------------------------------------------------
\* C12: no descriptor is closed twice.  The descriptors held in the members
\* of all objects are open and pairwise distinct (no two members, of one
\* object or of two, hold the same descriptor, also after moves and after
\* the destruction of moved-from objects); every ::close a call makes is
\* passed a descriptor the object holds at that moment (held before the
\* call or created in it, and not yet closed), and a member that held a
\* closed descriptor does not hold it after the call.
Owned(o) == {fd \in {o.listeningFd_, o.fd_} : fd >= 0}

Closed(sys) == {sys[n][2] : n \in {m \in 1..Len(sys) : sys[m][1] = "close"}}

\* Runs through the syscalls of one call: `held` are the descriptors the
\* object holds (a bound socket was just created, a close gives one up);
\* ok is FALSE when a close is passed a descriptor that is not held
RECURSIVE Replay(_, _, _)
Replay(sys, held, n) ==
  IF n > Len(sys) THEN [ok |-> TRUE, held |-> held]
  ELSE IF sys[n][1] = "bind" THEN Replay(sys, held \cup {sys[n][2]}, n + 1)
  ELSE IF sys[n][1] = "close"
    THEN IF sys[n][2] \in held
           THEN Replay(sys, held \ {sys[n][2]}, n + 1)
           ELSE [ok |-> FALSE, held |-> held]
  ELSE Replay(sys, held, n + 1)

C12_NoDoubleClose ==
  /\ [](\A i \in Inst :
          /\ Owned(sock[i]) \subseteq kOpen
          /\ sock[i].fd_ >= 0 => sock[i].fd_ # sock[i].listeningFd_
          /\ \A j \in Inst \ {i} : Owned(sock[i]) \cap Owned(sock[j]) = {})
  /\ [][\A i \in Inst :
          (call.pc = "idle" /\ vars' # vars /\ last'.inst = i)
            => LET r == Replay(last'.sys, Owned(sock[i]), 1) IN
               /\ r.ok
               /\ \A fd \in Closed(last'.sys) :
                    /\ fd \in Owned(sock'[i]) => fd \in r.held
                    /\ fd \in kOpen' => fd \in r.held]_vars

\* the source of a move assignment was destroyed and its destructor closed
\* the two descriptors the swap had given it; nothing else is left open
C12_Witness ==
  /\ last.op = "~ServerSocket"
  /\ movedFrom[last.inst] = "assign"
  /\ Len(last.sys) = 2
  /\ \E j \in alive : NotYetBound(sock[j])
  /\ kOpen = {0}

\* ----------------------------------------------------------------------
\* C13: a listening descriptor is present whenever listeningFd_ >= 0,
\* descriptor 0 included: listen() on such an object returns OK at once,
\* without resolving again or creating another socket; and a listen() that
\* leaves a bound socket in listeningFd_ has returned OK whatever the
\* descriptor's number is.
C13_DescriptorZeroPresent ==
  /\ [][\A i \in Inst :
          (Called("listen") /\ last'.inst = i /\ sock[i].listeningFd_ >= 0)
            => /\ last'.ret = "OK"
               /\ last'.sys = <<>>
               /\ sock'[i] = sock[i]]_vars
  /\ []((last.op = "listen" /\ sock[last.inst].listeningFd_ >= 0)
          => last.ret = "OK")

\* ----------------------------------------------------------------------
\* C14: listen() never leaks a socket: when listen() (called directly or by
\* acceptNextConnection) returns, every descriptor socket() gave it during
\* the call is either closed or is the one stored in listeningFd_, for all
\* outcomes of the socket, bind, getsockname and ::listen calls.
Made(sys) == {sys[n][2] : n \in {m \in 1..Len(sys) : sys[m][1] = "bind"}}

C14_ListenNeverLeaks ==
  [][\A i \in Inst :
       ((Called("listen") \/ Called("acceptNextConnection")) /\ last'.inst = i)
         => \A fd \in Made(last'.sys) :
              fd \in kOpen' => fd = sock'[i].listeningFd_]_vars

\* ----------------------------------------------------------------------
\* C15: fd_ changes only through a successful accept, closeCurrentConnection,
\* closeAll (or destruction) or a move: no step of an acceptNextConnection()
\* call that returns an error (listen failed, wait error, timeout, accept()
\* failed) changes fd_, and neither do listen(), read() and write().
FdWriters ==
  {"closeCurrentConnection", "closeAll", "~ServerSocket", "ServerSocket",
   "ServerSocket(&&)", "operator=(&&)"}

C15_FailedAcceptKeepsFd ==
  [][\A i \in Inst :
       sock'[i].fd_ # sock[i].fd_
         => \/ last'.op \in FdWriters
            \/ /\ last'.op = "acceptNextConnection" /\ last'.inst = i
               /\ last'.ret = "OK"
               /\ sock'[i].fd_ >= 0]_vars

\* ----------------------------------------------------------------------
\* C16: when ::listen fails after a successful bind, listen() closes the
\* bound socket, resets listeningFd_ to -1 and returns CONN_ERROR_RETRYABLE;
\* the next listen() on the object does not return early: it resolves and
\* binds again, and it can return OK.
KernelListenFailed(r) ==
  /\ r.op \in {"listen", "acceptNextConnection"}
  /\ r.log # <<>>
  /\ r.log[Len(r.log)] = "listen error for port"

C16_ListenFailureRetryable ==
  /\ [](\A i \in Inst :
          (KernelListenFailed(last) /\ last.inst = i)
            => LET n == Len(last.sys) IN
               /\ last.ret = "CONN_ERROR_RETRYABLE"
               /\ n >= 2
               /\ last.sys[n - 1][1] = "listen"
               /\ last.sys[n] = <<"close", last.sys[n - 1][2]>>
               /\ last.sys[n][2] \notin kOpen
               /\ sock[i].listeningFd_ = -1
               /\ \E r \in listen(sock[i], Kernel) :
                    /\ r.ret = "OK"
                    /\ r.k.faults >= 0
                    /\ r.o.listeningFd_ \in r.k.listening)
  /\ [][\A i \in Inst :
          (/\ KernelListenFailed(last) /\ last.inst = i
           /\ (Called("listen") \/ Called("acceptNextConnection")) /\ last'.inst = i)
            => /\ last'.sys # <<>>
               /\ last'.sys[1][1] = "getaddrinfo"
               /\ ~ResolutionFailed(last') => SocketCalls(last'.sys) # {}]_vars

\* ::listen has just failed on a bound socket
C16_Witness ==
  /\ KernelListenFailed(last)
  /\ last.op = "listen"
  /\ BoundSome([n \in 1..(Len(last.sys) - 2) |-> last.sys[n]])
  /\ sock[last.inst].listeningFd_ = -1

\* ----------------------------------------------------------------------
\* C17: listen() tries the candidates strictly in resolver order and stops
\* at the first one whose socket() and bind() succeed: after a listen()
\* that returned OK the k-th socket() call was made for the k-th candidate,
\* no socket() was made for a candidate after the first bindable one,
\* listeningFd_ is that candidate's socket and sa_ is that candidate's
\* address.
\* positions in sys of the bind() calls that succeeded
Bound(sys) ==
  {p \in 1..Len(sys) :
     /\ sys[p][1] = "bind"
     /\ (p = Len(sys) \/ sys[p + 1] # <<"close", sys[p][2]>>)}

FirstBound(sys) == CHOOSE p \in Bound(sys) : \A q \in Bound(sys) : p <= q

C17_FirstBindableWins ==
  (last.op = "listen" /\ last.ret = "OK" /\ last.sys # <<>>)
    => LET sys == last.sys
           S == SocketCalls(sys)
       IN /\ \A p \in S : sys[p][2] = Cardinality({q \in S : q <= p})
          /\ Bound(sys) # {}
          /\ LET b == FirstBound(sys) IN
             /\ \A p \in S : p < b
             /\ sock[last.inst].listeningFd_ = sys[b][2]
             /\ sock[last.inst].sa_ = Info(sock[last.inst].sa_, sys[b - 1][2])

\* ----------------------------------------------------------------------
\* C18: the bounded wait of acceptNextConnection(T), T > 0, terminates:
\* while the clock advances, under every pattern of interrupted waits and
\* wait results, a caller in the wait loop eventually leaves it (returns an
\* error or goes on to accept()); once the elapsed time has reached T the
\* next iteration does not wait again but returns the timeout error.
ClockStep == call' = [call EXCEPT !.elapsed = @ + 1]

C18_WaitTerminates ==
  /\ (call.pc = "wait") ~> (call.pc # "wait")
  /\ [][(/\ call.pc = "wait"
         /\ call.elapsed >= call.timeoutMillis
         /\ ~ClockStep)
          => /\ call'.pc = "idle"
             /\ last'.ret = "CONN_ERROR"
             /\ last'.log[Len(last'.log)] = "accept() timed out"]_vars

\* the caller is in the loop, was interrupted before, and its budget is
\* used up
C18_Witness ==
  /\ call.pc = "wait"
  /\ call.timeoutMillis = MaxTimeout
  /\ call.retried
  /\ call.pollRet = -1
  /\ call.elapsed >= call.timeoutMillis

\* ----------------------------------------------------------------------
\* C19: acceptNextConnection(t) with t <= 0 does not wait for readability:
\* once its listen() has succeeded the caller is at the accept() syscall,
\* never in the wait loop; the call never returns a timeout or a wait
\* error, and after a successful listen() it returns only with the result
\* of accept() (OK, or CONN_ERROR with "accept error").
WaitLogs == TimeoutLogs \cup {"poll() failed"}

C19_NoWaitWithoutTimeout ==
  /\ (call.pc # "idle" /\ call.timeoutMillis <= 0)
       => /\ call.pc = "accept"
          /\ ~call.polled
          /\ call.elapsed = 0
  /\ (/\ last.op = "acceptNextConnection" /\ last.timeoutMillis <= 0
      /\ call.pc = "idle")
       => /\ \A n \in 1..Len(last.log) : last.log[n] \notin WaitLogs
          /\ ~last.retried
          /\ \/ last.ret = "CONN_ERROR_RETRYABLE"
             \/ last.ret = "CONN_ERROR" /\ ResolutionFailed(last)
             \/ /\ last.ret \in {"OK", "CONN_ERROR"}
                /\ last.sys # <<>>
                /\ last.sys[Len(last.sys)][1] = "accept"
                /\ last.ret = "CONN_ERROR"
                     <=> (last.log # <<>> /\ last.log[Len(last.log)] = "accept error")

\* a call with a negative timeout has returned a connection
C19_Witness ==
  /\ last.op = "acceptNextConnection" /\ call.pc = "idle"
  /\ last.timeoutMillis = -1
  /\ last.ret = "OK"
  /\ sock[last.inst].fd_ \in kOpen

\* ----------------------------------------------------------------------
\* C20: the port is stable once bound: every step of an object that is not
\* a move and that has the same listening descriptor present before and
\* after it (accept, read, write, closeCurrentConnection, a repeated
\* listen, every step of the wait loop) leaves port_ unchanged.
MoveOps == {"ServerSocket(&&)", "operator=(&&)"}

C20_PortStableWhileListening ==
  [][\A i \in Inst :
       (/\ sock[i].listeningFd_ >= 0
        /\ sock'[i].listeningFd_ = sock[i].listeningFd_
        /\ ~(last'.op \in MoveOps /\ last' # last))
         => sock'[i].port_ = sock[i].port_]_vars

\* a connection was accepted and closed again on an object that listens on
\* the port the kernel assigned
C20_Witness ==
  /\ last.op = "closeCurrentConnection" /\ last.sys # <<>>
  /\ last.inst \in listened
  /\ sock[last.inst].listeningFd_ \in kListening
  /\ sock[last.inst].port_ = EphemeralPort
====
